---- MODULE Spec2Model ----
(***************************************************************************)
(* Model of the rsops watchdog: the orchestration loop of src/main.rs, the *)
(* two alert rules of src/alerting.rs, the notification channels of        *)
(* src/notification.rs and the two sources (resource_monitor.rs,           *)
(* container_monitor.rs).                                                  *)
(***************************************************************************)
EXTENDS Integers, Sequences, FiniteSets, TLC

(***************************************************************************)
(* Single-precision arithmetic.  The rule converts u64 byte counts with    *)
(* `as f32`, divides and multiplies by 100.0 in f32, and compares with f32 *)
(* thresholds.  A non-negative f32 is NaN, +inf, zero, or m * 2^e with a   *)
(* 24-bit significand 2^23 <= m < 2^24; every operation rounds to nearest, *)
(* ties to even, as IEEE-754 does.                                         *)
(***************************************************************************)
NaN == [k |-> "nan", m |-> 0, e |-> 0]

Inf == [k |-> "inf", m |-> 0, e |-> 0]

Zero == [k |-> "fin", m |-> 0, e |-> 0]

Fin(m, e) == [k |-> "fin", m |-> m, e |-> e]

IsZero(a) == a.k = "fin" /\ a.m = 0

RoundHalfEven(n, d) ==
    LET q == n \div d
        r == n % d
    IN  IF 2 * r > d \/ (2 * r = d /\ q % 2 = 1) THEN q + 1 ELSE q

RECURSIVE BitLen(_)
BitLen(n) == IF n = 0 THEN 0 ELSE 1 + BitLen(n \div 2)

\* the f32 nearest to m * 2^e, for an integer m > 0
Normalize(m, e) ==
    LET b == BitLen(m)
    IN  IF b <= 24
        THEN Fin(m * 2^(24 - b), e - (24 - b))
        ELSE LET s == b - 24
                 r == RoundHalfEven(m, 2^s)
             IN  IF r = 2^24 THEN Fin(2^23, e + s + 1) ELSE Fin(r, e + s)

\* `n as f32` for an unsigned integer n
FromU64(n) == IF n = 0 THEN Zero ELSE Normalize(n, 0)

\* floor(q0 * 2^k + r0 * 2^k / d) and the remainder, by binary long division
RECURSIVE LongDiv(_, _, _, _)
LongDiv(q, r, d, k) ==
    IF k = 0
    THEN <<q, r>>
    ELSE LET r2  == 2 * r
             bit == IF r2 >= d THEN 1 ELSE 0
         IN  LongDiv(2 * q + bit, r2 - bit * d, d, k - 1)

\* a / b in f32
F32Div(a, b) ==
    IF a.k = "nan" \/ b.k = "nan" THEN NaN
    ELSE IF a.k = "inf" THEN (IF b.k = "inf" THEN NaN ELSE Inf)
    ELSE IF b.k = "inf" THEN Zero
    ELSE IF IsZero(b) THEN (IF IsZero(a) THEN NaN ELSE Inf)
    ELSE IF IsZero(a) THEN Zero
    ELSE LET k  == IF a.m >= b.m THEN 23 ELSE 24
             qr == LongDiv(a.m \div b.m, a.m % b.m, b.m, k)
             q  == qr[1]
             r  == qr[2]
             up == 2 * r > b.m \/ (2 * r = b.m /\ q % 2 = 1)
             q1 == IF up THEN q + 1 ELSE q
             e  == a.e - b.e - k
         IN  IF q1 = 2^24 THEN Fin(2^23, e + 1) ELSE Fin(q1, e)

\* a * 100.0 in f32
F32Mul100(a) ==
    IF a.k # "fin" \/ IsZero(a) THEN a ELSE Normalize(a.m * 100, a.e)

\* a > b in f32 (false when either side is NaN)
F32Gt(a, b) ==
    IF a.k = "nan" \/ b.k = "nan" THEN FALSE
    ELSE IF a.k = "inf" THEN b.k # "inf"
    ELSE IF b.k = "inf" THEN FALSE
    ELSE IF IsZero(a) THEN FALSE
    ELSE IF IsZero(b) THEN TRUE
    ELSE a.e > b.e \/ (a.e = b.e /\ a.m > b.m)

\* format!("{:.1}", a): the decimal with one fractional digit nearest to a
Fmt1(a) ==
    IF a.k = "nan" THEN <<"NaN">>
    ELSE IF a.k = "inf" THEN <<"inf">>
    ELSE LET tenths == IF a.e >= 0 THEN a.m * 10 * 2^(a.e)
                       ELSE IF -a.e > 30 THEN 0
                       ELSE RoundHalfEven(a.m * 10, 2^(-a.e))
         IN  <<tenths \div 10, ".", tenths % 10>>

(***************************************************************************)
(* Results and options.  Option<T> is a sequence of length at most one;    *)
(* Result<T, E> carries a tag.                                             *)
(***************************************************************************)
None == <<>>

Some(x) == <<x>>

Ok(x) == [tag |-> "Ok", val |-> x]

Err(x) == [tag |-> "Err", val |-> x]

(***************************************************************************)
(* Bounds and program constants.                                           *)
(***************************************************************************)
\* interval period in seconds (Duration::from_secs(60))
Period == 60

\* thresholds set in main
CpuThreshold == 80

MemoryThreshold == 90

DiskThreshold == 85

\* the clock is not advanced past MaxTime
MaxTime == 300

\* duration in seconds of an I/O call that is slow (a fast one takes 0)
SlowCall == 150

\* longest container listing
MaxContainers == 2

Durations == {0, SlowCall}

resource_threshold ==
    [cpu_threshold    |-> FromU64(CpuThreshold),
     memory_threshold |-> FromU64(MemoryThreshold),
     disk_threshold   |-> FromU64(DiskThreshold)]

\* the channels with the webhook registered first
notifiersWebhookFirst == <<"slack", "email">>

\* the registered channels, in registration order
notifiers == <<"email", "slack">>

NumNotifiers == Len(notifiers)

(***************************************************************************)
(* Inputs.  cpu_usage is an f32; the byte counts are u64 pairs             *)
(* <<used, total>>, small ones and ones beyond the 24 bits an f32 holds.   *)
(***************************************************************************)
CpuSamples == {FromU64(50), FromU64(80), FromU64(85)}

MemorySamples ==
    { <<450, 1000>>, <<9, 10>>, <<95, 100>>, <<0, 0>>, <<1, 0>>,
      <<966367642, 1073741824>>, <<1157538518, 1286153909>> }

DiskSamples ==
    { <<100, 1000>>, <<17, 20>>, <<9, 10>>, <<0, 0>>, <<1, 0>>,
      <<912680551, 1073741824>>, <<163926410, 192854600>> }

MetricsSamples ==
    { [cpu_usage |-> c, memory_used |-> mm[1], memory_total |-> mm[2],
       disk_used |-> dd[1], disk_total |-> dd[2]] :
         c \in CpuSamples, mm \in MemorySamples, dd \in DiskSamples }

\* the addresses main hands to EmailNotifier::new, as character sequences
FromAddress ==
    <<"f", "r", "o", "m", "@", "e", "x", "a", "m", "p", "l", "e", ".", "c", "o", "m">>

ToAddress ==
    <<"t", "o", "@", "e", "x", "a", "m", "p", "l", "e", ".", "c", "o", "m">>

\* addresses a configuration may hand to EmailNotifier::new
AddressSamples == { FromAddress, ToAddress, <<"f", "r", "o", "m">> }

\* raw runtime status strings, as character sequences
StatusUp == <<"U", "p", " ", "2", "h">>

StatusExited == <<"E", "x", "i", "t", "e", "d", " ", "(", "1", ")">>

StatusCreated == <<"C", "r", "e", "a", "t", "e", "d">>

NameWeb == <<"/", "w", "e", "b">>

NameDb == <<"/", "d", "b">>

\* containers as the runtime reports them: id, first name, status
RuntimeContainers ==
    { [id |-> "abc123", name |-> NameWeb, status |-> StatusExited],
      [id |-> "abc123", name |-> NameWeb, status |-> StatusUp],
      [id |-> "def456", name |-> NameDb, status |-> StatusCreated] }

RuntimeListings ==
    UNION { [1..n -> RuntimeContainers] : n \in 0..MaxContainers }

(***************************************************************************)
(* Alert rules (src/alerting.rs).                                          *)
(***************************************************************************)
UsagePercent(used, total) == F32Mul100(F32Div(FromU64(used), FromU64(total)))

\* an alert that repeats the clock reading in its details
AlertClockInDetails(ts, sev, src, msg, det) ==
    [timestamp |-> ts, severity |-> sev, source |-> src,
     message |-> msg, details |-> Append(det, ts)]

Alert(ts, sev, src, msg, det) ==
    [timestamp |-> ts, severity |-> sev, source |-> src,
     message |-> msg, details |-> det]

\* a resource rule that reports an error when no threshold is exceeded
ResourceEvaluateStrict(threshold, metrics, clock) ==
    LET cpu_usage_percent    == metrics.cpu_usage
        memory_usage_percent == UsagePercent(metrics.memory_used, metrics.memory_total)
        disk_usage_percent   == UsagePercent(metrics.disk_used, metrics.disk_total)
    IN  IF F32Gt(cpu_usage_percent, threshold.cpu_threshold)
        THEN Ok(Some(Alert(clock, "Warning", "CPU",
                           <<"High CPU usage: ", Fmt1(cpu_usage_percent), "%">>,
                           <<"Threshold: ", Fmt1(threshold.cpu_threshold), "%">>)))
        ELSE IF F32Gt(memory_usage_percent, threshold.memory_threshold)
        THEN Ok(Some(Alert(clock, "Warning", "Memory",
                           <<"High memory usage: ", Fmt1(memory_usage_percent), "%">>,
                           <<"Threshold: ", Fmt1(threshold.memory_threshold), "%">>)))
        ELSE IF F32Gt(disk_usage_percent, threshold.disk_threshold)
        THEN Ok(Some(Alert(clock, "Warning", "Disk",
                           <<"High disk usage: ", Fmt1(disk_usage_percent), "%">>,
                           <<"Threshold: ", Fmt1(threshold.disk_threshold), "%">>)))
        ELSE Err("EvaluationError")

\* ResourceAlertRule::evaluate; clock is the value Utc::now() returns
ResourceEvaluate(threshold, metrics, clock) ==
    LET cpu_usage_percent    == metrics.cpu_usage
        memory_usage_percent == UsagePercent(metrics.memory_used, metrics.memory_total)
        disk_usage_percent   == UsagePercent(metrics.disk_used, metrics.disk_total)
    IN  IF F32Gt(cpu_usage_percent, threshold.cpu_threshold)
        THEN Ok(Some(Alert(clock, "Warning", "CPU",
                           <<"High CPU usage: ", Fmt1(cpu_usage_percent), "%">>,
                           <<"Threshold: ", Fmt1(threshold.cpu_threshold), "%">>)))
        ELSE IF F32Gt(memory_usage_percent, threshold.memory_threshold)
        THEN Ok(Some(Alert(clock, "Warning", "Memory",
                           <<"High memory usage: ", Fmt1(memory_usage_percent), "%">>,
                           <<"Threshold: ", Fmt1(threshold.memory_threshold), "%">>)))
        ELSE IF F32Gt(disk_usage_percent, threshold.disk_threshold)
        THEN Ok(Some(Alert(clock, "Warning", "Disk",
                           <<"High disk usage: ", Fmt1(disk_usage_percent), "%">>,
                           <<"Threshold: ", Fmt1(threshold.disk_threshold), "%">>)))
        ELSE Ok(None)

\* ContainerAlertRule::evaluate with the liveness test inverted
ContainerEvaluateInverted(container, clock) ==
    IF container.running
    THEN Ok(Some(Alert(clock, "Critical", "Container",
                       <<"Container ", container.name, " is not running">>,
                       <<"Container ID: ", container.container_id,
                         ", Status: ", container.status>>)))
    ELSE Ok(None)

\* ContainerAlertRule::evaluate
ContainerEvaluate(container, clock) ==
    IF ~container.running
    THEN Ok(Some(Alert(clock, "Critical", "Container",
                       <<"Container ", container.name, " is not running">>,
                       <<"Container ID: ", container.container_id,
                         ", Status: ", container.status>>)))
    ELSE Ok(None)

(***************************************************************************)
(* Inventory source (src/container_monitor.rs).                            *)
(***************************************************************************)
ToLowerChar(c) ==
    CASE c = "U" -> "u"
      [] c = "P" -> "p"
      [] c = "E" -> "e"
      [] c = "C" -> "c"
      [] OTHER   -> c

ToLowercase(s) == [i \in 1..Len(s) |-> ToLowerChar(s[i])]

Contains(s, pat) ==
    \E i \in 1..(Len(s) - Len(pat) + 1) : SubSeq(s, i, i + Len(pat) - 1) = pat

\* trim_start_matches('/')
RECURSIVE TrimStartSlash(_)
TrimStartSlash(name) ==
    IF name # <<>> /\ Head(name) = "/" THEN TrimStartSlash(Tail(name)) ELSE name

\* the ContainerStatus list_containers builds from one runtime entry
ToContainerStatus(c) ==
    [container_id |-> c.id,
     name         |-> TrimStartSlash(c.name),
     status       |-> c.status,
     running      |-> Contains(ToLowercase(c.status), <<"u", "p">>)]

ContainerStatuses(listing) == [i \in 1..Len(listing) |-> ToContainerStatus(listing[i])]

(***************************************************************************)
(* Notification channels (src/notification.rs).                            *)
(***************************************************************************)
\* EmailNotifier::new stores its parameters
EmailNotifierNew(from_address, to_address) ==
    [from_address |-> from_address, to_address |-> to_address]

\* str::parse::<Mailbox>: one "@" with a local part and a domain around it
ParseMailbox(s) ==
    /\ Cardinality({i \in 1..Len(s) : s[i] = "@"}) = 1
    /\ \E i \in 2..(Len(s) - 1) : s[i] = "@"

\* what one call of the transport can do: return Ok, return Err, not return
TransportOutcomes == {"ok", "err", "hang"}

\* EmailNotifier::send: res is the result, net the number of network calls
EmailSend(notifier) ==
    IF ~ParseMailbox(notifier.from_address) \/ ~ParseMailbox(notifier.to_address)
    THEN {[res |-> "err", net |-> 0]}
    ELSE {[res |-> o, net |-> 1] : o \in TransportOutcomes}

\* SlackNotifier::send
SlackSend == {[res |-> o, net |-> 1] : o \in TransportOutcomes}

NotifierSend(name, email) == IF name = "email" THEN EmailSend(email) ELSE SlackSend

(***************************************************************************)
(* The process (src/main.rs).                                              *)
(***************************************************************************)
VARIABLES
    pc,          \* position of main: start, exited, wait, collect, res_eval,
                 \* res_send, list, cont_eval, cont_send, hung
    now,         \* the clock, in seconds
    deadline,    \* the instant at which the interval completes its next tick
    tickAt,      \* the instant the latest tick fired, -1 before the first
    email,       \* the EmailNotifier
    collected,   \* this tick's collect_metrics: none, ok, err
    metrics,     \* Option: the snapshot of this tick
    alert,       \* Option: the alert being dispatched
    idx,         \* position of the notifier loop in notifiers
    invoked,     \* per notifier: calls of send for the current alert
    network,     \* per notifier: network calls made for the current alert
    outcome,     \* per notifier: result of send for the current alert
    listed,      \* this tick's list_containers: none, ok, err
    containers,  \* the listing of this tick
    pos,         \* position of the container loop in containers
    evaluated,   \* container rules evaluated in this tick
    dispatched,  \* container alerts whose notifier loop completed in this tick
    failed,      \* kinds of failure that occurred in this tick
    logged,      \* kinds of failure logged in this tick
    docker,      \* DockerContainerMonitor::new: none (not called), ok, err
    calls,       \* calls of collect_metrics and list_containers in this tick
    alerts,      \* alerts the two rules returned in this tick
    sent,        \* per stage and notifier: calls of send in this tick
    order,       \* the notifiers sent the current alert, in call order
    lastTickFailed  \* a send returned Err in the tick before this one

vars == <<pc, now, deadline, tickAt, email, collected, metrics, alert, idx,
          invoked, network, outcome, listed, containers, pos, evaluated,
          dispatched, failed, logged, docker, calls, alerts, sent, order,
          lastTickFailed>>

NoCalls == [i \in 1..NumNotifiers |-> 0]

NoOutcome == [i \in 1..NumNotifiers |-> "none"]

NoSampling == [metrics |-> 0, inventory |-> 0]

NoAlerts == [resource |-> 0, container |-> 0]

NoSends == [resource |-> NoCalls, container |-> NoCalls]

\* the state once main has built email from the given addresses
InitWith(from_address, to_address) ==
    /\ pc = "start"
    /\ now = 0
    /\ deadline = 0
    /\ tickAt = -1
    /\ email = EmailNotifierNew(from_address, to_address)
    /\ collected = "none"
    /\ metrics = None
    /\ alert = None
    /\ idx = 1
    /\ invoked = NoCalls
    /\ network = NoCalls
    /\ outcome = NoOutcome
    /\ listed = "none"
    /\ containers = <<>>
    /\ pos = 1
    /\ evaluated = 0
    /\ dispatched = 0
    /\ failed = {}
    /\ logged = {}
    /\ docker = "none"
    /\ calls = NoSampling
    /\ alerts = NoAlerts
    /\ sent = NoSends
    /\ order = <<>>
    /\ lastTickFailed = FALSE

\* main as written: "from@example.com" and "to@example.com"
Init == InitWith(FromAddress, ToAddress)

\* main with the channel's construction parameters as configuration
ConfigInit == \E f \in AddressSamples, t \in AddressSamples : InitWith(f, t)

tickVars == <<collected, metrics, alert, idx, invoked, network, outcome, listed,
              containers, pos, evaluated, dispatched, failed, logged, calls,
              alerts, sent, order>>

\* DockerContainerMonitor::new()? succeeds; notifiers and the interval are built
StartOk ==
    /\ pc = "start"
    /\ pc' = "wait"
    /\ docker' = "ok"
    /\ deadline' = now
    /\ UNCHANGED <<now, tickAt, email, lastTickFailed>>
    /\ UNCHANGED tickVars

\* a main that goes on into the loop when DockerContainerMonitor::new() fails
StartFailContinue ==
    /\ pc = "start"
    /\ pc' = "wait"
    /\ docker' = "err"
    /\ UNCHANGED <<now, deadline, tickAt, email, lastTickFailed>>
    /\ UNCHANGED tickVars

\* DockerContainerMonitor::new()? fails: main returns the error
StartFail ==
    /\ pc = "start"
    /\ pc' = "exited"
    /\ docker' = "err"
    /\ UNCHANGED <<now, deadline, tickAt, email, lastTickFailed>>
    /\ UNCHANGED tickVars

\* Interval::tick with the default MissedTickBehavior::Burst: the next
\* deadline is one period after the deadline that has just been served
NextTimeout(timeout, fired) == timeout + Period

\* a loop that skips collect_metrics in the tick after a failure
TickSkipAfterFailure ==
    /\ pc = "wait"
    /\ LET fired == IF now < deadline THEN deadline ELSE now
       IN  /\ fired <= MaxTime
           /\ now' = fired
           /\ tickAt' = fired
           /\ deadline' = NextTimeout(deadline, fired)
    /\ pc' = IF failed # {} THEN "list" ELSE "collect"
    /\ collected' = "none"
    /\ metrics' = None
    /\ alert' = None
    /\ idx' = 1
    /\ invoked' = NoCalls
    /\ network' = NoCalls
    /\ outcome' = NoOutcome
    /\ listed' = "none"
    /\ containers' = <<>>
    /\ pos' = 1
    /\ evaluated' = 0
    /\ dispatched' = 0
    /\ failed' = {}
    /\ logged' = {}
    /\ calls' = NoSampling
    /\ alerts' = NoAlerts
    /\ sent' = NoSends
    /\ order' = <<>>
    /\ lastTickFailed' = ("delivery" \in failed)
    /\ UNCHANGED <<email, docker>>

\* interval.tick().await
Tick ==
    /\ pc = "wait"
    /\ LET fired == IF now < deadline THEN deadline ELSE now
       IN  /\ fired <= MaxTime
           /\ now' = fired
           /\ tickAt' = fired
           /\ deadline' = NextTimeout(deadline, fired)
    /\ pc' = "collect"
    /\ collected' = "none"
    /\ metrics' = None
    /\ alert' = None
    /\ idx' = 1
    /\ invoked' = NoCalls
    /\ network' = NoCalls
    /\ outcome' = NoOutcome
    /\ listed' = "none"
    /\ containers' = <<>>
    /\ pos' = 1
    /\ evaluated' = 0
    /\ dispatched' = 0
    /\ failed' = {}
    /\ logged' = {}
    /\ calls' = NoSampling
    /\ alerts' = NoAlerts
    /\ sent' = NoSends
    /\ order' = <<>>
    /\ lastTickFailed' = ("delivery" \in failed)
    /\ UNCHANGED <<email, docker>>

\* what ResourceMonitor::collect_metrics may return: the trait declares a
\* Result, whose Err arm main handles
CollectMetricsResults ==
    {Err("MetricsCollectionError")} \cup {Ok(m) : m \in MetricsSamples}

\* what ContainerMonitor::list_containers may return
ListContainersResults ==
    {Err("MonitoringError")} \cup {Ok(ContainerStatuses(l)) : l \in RuntimeListings}

\* an awaited I/O call returns after d seconds
Elapse(d) == now + d <= MaxTime /\ now' = now + d

\* collect_metrics with a failure that ends the tick
CollectMetricsAbortTick ==
    /\ pc = "collect"
    /\ \E d \in Durations, r \in CollectMetricsResults :
          /\ Elapse(d)
          /\ IF r.tag = "Ok"
             THEN /\ collected' = "ok"
                  /\ metrics' = Some(r.val)
                  /\ pc' = "res_eval"
                  /\ failed' = failed
             ELSE /\ collected' = "err"
                  /\ metrics' = None
                  /\ pc' = "wait"
                  /\ failed' = failed \cup {"metrics"}
    /\ calls' = [calls EXCEPT !.metrics = @ + 1]
    /\ UNCHANGED <<deadline, tickAt, email, alert, idx, invoked, network, outcome,
                   listed, containers, pos, evaluated, dispatched, logged,
                   docker, alerts, sent, order, lastTickFailed>>

\* if let Ok(metrics) = resource_monitor.collect_metrics().await
CollectMetrics ==
    /\ pc = "collect"
    /\ \E d \in Durations, r \in CollectMetricsResults :
          /\ Elapse(d)
          /\ IF r.tag = "Ok"
             THEN /\ collected' = "ok"
                  /\ metrics' = Some(r.val)
                  /\ pc' = "res_eval"
                  /\ failed' = failed
             ELSE /\ collected' = "err"
                  /\ metrics' = None
                  /\ pc' = "list"
                  /\ failed' = failed \cup {"metrics"}
    /\ calls' = [calls EXCEPT !.metrics = @ + 1]
    /\ UNCHANGED <<deadline, tickAt, email, alert, idx, invoked, network, outcome,
                   listed, containers, pos, evaluated, dispatched, logged,
                   docker, alerts, sent, order, lastTickFailed>>

\* the pattern `if let Ok(Some(alert))` applied to r, the result of
\* resource_rule.evaluate(): the block runs for Ok(Some(alert)) only
IfLetResourceAlert(r) ==
    /\ IF r.tag = "Ok" /\ r.val # None
           THEN /\ alert' = r.val
                /\ alerts' = [alerts EXCEPT !.resource = @ + 1]
                /\ pc' = "res_send"
                /\ failed' = failed
           ELSE /\ alert' = None
                /\ alerts' = alerts
                /\ pc' = "list"
                /\ failed' = IF r.tag = "Err" THEN failed \cup {"evaluation"} ELSE failed
    /\ idx' = 1
    /\ invoked' = NoCalls
    /\ network' = NoCalls
    /\ outcome' = NoOutcome
    /\ order' = <<>>
    /\ UNCHANGED <<now, deadline, tickAt, email, collected, metrics, listed,
                   containers, pos, evaluated, dispatched, logged, docker,
                   calls, sent, lastTickFailed>>

\* a resource stage that holds its alert back in the tick after a failed send
EvaluateResourceBackoff ==
    /\ pc = "res_eval"
    /\ IfLetResourceAlert(IF lastTickFailed
                          THEN Ok(None)
                          ELSE ResourceEvaluate(resource_threshold, metrics[1], now))

\* if let Ok(Some(alert)) = resource_rule.evaluate().await
EvaluateResource ==
    /\ pc = "res_eval"
    /\ IfLetResourceAlert(ResourceEvaluate(resource_threshold, metrics[1], now))

\* the same statement with a rule whose evaluate returns the error that
\* AlertRule::evaluate declares
EvaluateResourceFault ==
    /\ pc = "res_eval"
    /\ IfLetResourceAlert(Err("EvaluationError"))

\* a notifier loop that sends again to a channel whose send returned Err
NotifierIterationRetry(o) ==
    /\ invoked' = [invoked EXCEPT ![idx] = @ + 1]
    /\ network' = [network EXCEPT ![idx] = @ + o.net]
    /\ order' = Append(order, notifiers[idx])
    /\ IF o.res = "hang"
       THEN /\ pc' = "hung"
            /\ UNCHANGED <<idx, outcome, failed, logged>>
       ELSE /\ idx' = IF o.res = "err" THEN idx ELSE idx + 1
            /\ outcome' = [outcome EXCEPT ![idx] = o.res]
            /\ failed' = IF o.res = "err" THEN failed \cup {"delivery"} ELSE failed
            /\ logged' = IF o.res = "err" THEN logged \cup {"delivery"} ELSE logged

\* one iteration of `for notifier in &notifiers`: send, and log an Err;
\* a send that does not return leaves main suspended in it
NotifierIteration(o) ==
    /\ invoked' = [invoked EXCEPT ![idx] = @ + 1]
    /\ network' = [network EXCEPT ![idx] = @ + o.net]
    /\ order' = Append(order, notifiers[idx])
    /\ IF o.res = "hang"
       THEN /\ pc' = "hung"
            /\ UNCHANGED <<idx, outcome, failed, logged>>
       ELSE /\ idx' = idx + 1
            /\ outcome' = [outcome EXCEPT ![idx] = o.res]
            /\ failed' = IF o.res = "err" THEN failed \cup {"delivery"} ELSE failed
            /\ logged' = IF o.res = "err" THEN logged \cup {"delivery"} ELSE logged

\* a resource stage that evaluates the rule again after each dispatch
SendResourceAlertAgain ==
    /\ pc = "res_send"
    /\ \E d \in Durations, o \in NotifierSend(notifiers[idx], email) :
          /\ Elapse(IF o.res = "hang" THEN 0 ELSE d)
          /\ NotifierIteration(o)
          /\ o.res # "hang" => pc' = IF idx = NumNotifiers THEN "res_eval" ELSE "res_send"
    /\ sent' = [sent EXCEPT !.resource[idx] = @ + 1]
    /\ UNCHANGED <<deadline, tickAt, email, collected, metrics, alert, listed,
                   containers, pos, evaluated, dispatched, docker, calls,
                   alerts, lastTickFailed>>

\* the notifier loop for the resource alert
SendResourceAlert ==
    /\ pc = "res_send"
    /\ \E d \in Durations, o \in NotifierSend(notifiers[idx], email) :
          /\ Elapse(IF o.res = "hang" THEN 0 ELSE d)
          /\ NotifierIteration(o)
          /\ o.res # "hang" => pc' = IF idx = NumNotifiers THEN "list" ELSE "res_send"
    /\ sent' = [sent EXCEPT !.resource[idx] = @ + 1]
    /\ UNCHANGED <<deadline, tickAt, email, collected, metrics, alert, listed,
                   containers, pos, evaluated, dispatched, docker, calls,
                   alerts, lastTickFailed>>

\* list_containers().await? in place of the if let: an Err leaves main
ListContainersPropagate ==
    /\ pc = "list"
    /\ \E d \in Durations, r \in ListContainersResults :
          /\ Elapse(d)
          /\ IF r.tag = "Ok"
             THEN /\ listed' = "ok"
                  /\ containers' = r.val
                  /\ pc' = IF r.val = <<>> THEN "wait" ELSE "cont_eval"
                  /\ failed' = failed
             ELSE /\ listed' = "err"
                  /\ containers' = <<>>
                  /\ pc' = "exited"
                  /\ failed' = failed \cup {"inventory"}
    /\ pos' = 1
    /\ metrics' = None
    /\ alert' = None
    /\ idx' = 1
    /\ invoked' = NoCalls
    /\ network' = NoCalls
    /\ outcome' = NoOutcome
    /\ order' = <<>>
    /\ calls' = [calls EXCEPT !.inventory = @ + 1]
    /\ UNCHANGED <<deadline, tickAt, email, collected, evaluated, dispatched, logged,
                   docker, alerts, sent, lastTickFailed>>

\* if let Ok(containers) = container_monitor.list_containers().await
ListContainers ==
    /\ pc = "list"
    /\ \E d \in Durations, r \in ListContainersResults :
          /\ Elapse(d)
          /\ IF r.tag = "Ok"
             THEN /\ listed' = "ok"
                  /\ containers' = r.val
                  /\ pc' = IF r.val = <<>> THEN "wait" ELSE "cont_eval"
                  /\ failed' = failed
             ELSE /\ listed' = "err"
                  /\ containers' = <<>>
                  /\ pc' = "wait"
                  /\ failed' = failed \cup {"inventory"}
    /\ pos' = 1
    /\ metrics' = None
    /\ alert' = None
    /\ idx' = 1
    /\ invoked' = NoCalls
    /\ network' = NoCalls
    /\ outcome' = NoOutcome
    /\ order' = <<>>
    /\ calls' = [calls EXCEPT !.inventory = @ + 1]
    /\ UNCHANGED <<deadline, tickAt, email, collected, evaluated, dispatched, logged,
                   docker, alerts, sent, lastTickFailed>>

\* the position after the body of `for container in containers`
NextContainer == IF pos = Len(containers) THEN "wait" ELSE "cont_eval"

\* the pattern `if let Ok(Some(alert))` applied to r, the result of
\* container_rule.evaluate(), in the body of `for container in containers`
IfLetContainerAlert(r) ==
    /\ IF r.tag = "Ok" /\ r.val # None
           THEN /\ alert' = r.val
                /\ alerts' = [alerts EXCEPT !.container = @ + 1]
                /\ pc' = "cont_send"
                /\ pos' = pos
                /\ failed' = failed
           ELSE /\ alert' = None
                /\ alerts' = alerts
                /\ pc' = NextContainer
                /\ pos' = pos + 1
                /\ failed' = IF r.tag = "Err" THEN failed \cup {"evaluation"} ELSE failed
    /\ evaluated' = evaluated + 1
    /\ idx' = 1
    /\ invoked' = NoCalls
    /\ network' = NoCalls
    /\ outcome' = NoOutcome
    /\ order' = <<>>
    /\ UNCHANGED <<now, deadline, tickAt, email, collected, metrics, listed,
                   containers, dispatched, logged, docker, calls, sent,
                   lastTickFailed>>

\* if let Ok(Some(alert)) = container_rule.evaluate().await
EvaluateContainer ==
    /\ pc = "cont_eval"
    /\ IfLetContainerAlert(ContainerEvaluate(containers[pos], now))

\* a failed container evaluation that ends the container loop
EvaluateContainerFaultBreak ==
    /\ pc = "cont_eval"
    /\ pc' = "wait"
    /\ alert' = None
    /\ failed' = failed \cup {"evaluation"}
    /\ evaluated' = evaluated + 1
    /\ idx' = 1
    /\ invoked' = NoCalls
    /\ network' = NoCalls
    /\ outcome' = NoOutcome
    /\ order' = <<>>
    /\ UNCHANGED <<now, deadline, tickAt, email, collected, metrics, listed,
                   containers, pos, alerts, dispatched, logged, docker, calls,
                   sent, lastTickFailed>>

\* the same statement with a rule whose evaluate returns the error that
\* AlertRule::evaluate declares
EvaluateContainerFault ==
    /\ pc = "cont_eval"
    /\ IfLetContainerAlert(Err("EvaluationError"))

\* a container loop that a failed send breaks out of
SendContainerAlertAbort ==
    /\ pc = "cont_send"
    /\ \E d \in Durations, o \in NotifierSend(notifiers[idx], email) :
          /\ Elapse(IF o.res = "hang" THEN 0 ELSE d)
          /\ NotifierIteration(o)
          /\ IF o.res = "err"
             THEN /\ pc' = "wait"
                  /\ UNCHANGED <<pos, dispatched>>
             ELSE IF o.res # "hang" /\ idx = NumNotifiers
             THEN /\ pc' = NextContainer
                  /\ pos' = pos + 1
                  /\ dispatched' = dispatched + 1
             ELSE /\ o.res # "hang" => pc' = "cont_send"
                  /\ UNCHANGED <<pos, dispatched>>
    /\ sent' = [sent EXCEPT !.container[idx] = @ + 1]
    /\ UNCHANGED <<deadline, tickAt, email, collected, metrics, alert, listed,
                   containers, evaluated, docker, calls, alerts, lastTickFailed>>

\* the notifier loop for one container alert
SendContainerAlert ==
    /\ pc = "cont_send"
    /\ \E d \in Durations, o \in NotifierSend(notifiers[idx], email) :
          /\ Elapse(IF o.res = "hang" THEN 0 ELSE d)
          /\ NotifierIteration(o)
          /\ IF o.res # "hang" /\ idx = NumNotifiers
             THEN /\ pc' = NextContainer
                  /\ pos' = pos + 1
                  /\ dispatched' = dispatched + 1
             ELSE /\ o.res # "hang" => pc' = "cont_send"
                  /\ UNCHANGED <<pos, dispatched>>
    /\ sent' = [sent EXCEPT !.container[idx] = @ + 1]
    /\ UNCHANGED <<deadline, tickAt, email, collected, metrics, alert, listed,
                   containers, evaluated, docker, calls, alerts, lastTickFailed>>

Next ==
    \/ StartOk
    \/ StartFail
    \/ Tick
    \/ CollectMetrics
    \/ EvaluateResource
    \/ SendResourceAlert
    \/ ListContainers
    \/ EvaluateContainer
    \/ SendContainerAlert

Spec == Init /\ [][Next]_vars

ConfigSpec == ConfigInit /\ [][Next]_vars

\* main with rules that may fail: AlertRule::evaluate returns a Result, and
\* main handles its Err arm, which neither rule of this repository produces
RuleFaultNext ==
    \/ StartOk
    \/ StartFail
    \/ Tick
    \/ CollectMetrics
    \/ EvaluateResource
    \/ EvaluateResourceFault
    \/ SendResourceAlert
    \/ ListContainers
    \/ EvaluateContainer
    \/ EvaluateContainerFault
    \/ SendContainerAlert

RuleFaultSpec == Init /\ [][RuleFaultNext]_vars

\* the evaluation is a computation without I/O: main does not stay in it.
\* This is WF_vars(EvaluateResource) with ENABLED <<EvaluateResource>>_vars
\* written out: the step is possible exactly at res_eval and changes pc
EvaluateResourceFair ==
    []<>(pc # "res_eval") \/ []<><<EvaluateResource>>_vars

\* main scheduled fairly: the runtime resumes main when the timer completes,
\* and every awaited call that returns lets main go on (a send that does not
\* return leaves main at hung, where no step is possible)
FairSpec ==
    /\ Spec
    /\ WF_vars(Tick)
    /\ WF_vars(CollectMetrics)
    /\ EvaluateResourceFair
    /\ WF_vars(SendResourceAlert)
    /\ WF_vars(ListContainers)
    /\ WF_vars(EvaluateContainer)
    /\ WF_vars(SendContainerAlert)

(***************************************************************************)
(* Properties.                                                             *)
(***************************************************************************)
Channels == 1..NumNotifiers

InNotifierLoop == pc \in {"res_send", "cont_send"}

\* the notifier loop of the current alert has run to its end
DispatchComplete == alert # None /\ idx = NumNotifiers + 1

\* C1: fan-out failure isolation.  For the alert being dispatched, no channel
\* is sent to more than once and none makes more than one network call; when
\* send on channel k returned an error, the error is logged, main is still
\* in the loop, and every other channel has been sent to exactly once or is
\* still ahead in the running notifier loop; when the notifier loop has ended,
\* every channel has been sent to exactly once.
C1_FanOutIsolation ==
    /\ \A c \in Channels : invoked[c] <= 1 /\ network[c] <= 1
    /\ \A k \in Channels :
          outcome[k] = "err" =>
             /\ "delivery" \in logged
             /\ pc \notin {"start", "exited"}
             /\ \A c \in Channels \ {k} :
                   invoked[c] = 1 \/ (InNotifierLoop /\ idx <= c)
    /\ DispatchComplete => \A c \in Channels : invoked[c] = 1

\* C1 witness: the first channel failed, the second was still sent to, once,
\* and the notifier loop has ended
C1_Witness ==
    /\ DispatchComplete
    /\ outcome[1] = "err"
    /\ outcome[2] = "ok"
    /\ invoked = [c \in Channels |-> 1]

\* number of listed containers that are not running
RECURSIVE NotRunning(_)
NotRunning(cs) ==
    IF cs = <<>> THEN 0
    ELSE (IF Head(cs).running THEN 0 ELSE 1) + NotRunning(Tail(cs))

\* the tick's loop body has run to its end
TickComplete == pc = "wait" /\ tickAt >= 0

\* C2: stage isolation.  In a tick whose collect_metrics failed, main is about
\* to call list_containers or has called it, and when that call succeeded and
\* the tick has ended every listed container was evaluated and every container
\* that is not running had its alert dispatched.
C2_StageIsolation ==
    collected = "err" =>
       /\ (pc = "list" /\ listed = "none") \/ listed \in {"ok", "err"}
       /\ TickComplete /\ listed = "ok" =>
             /\ evaluated = Len(containers)
             /\ dispatched = NotRunning(containers)

\* C2 witness: a tick ended in which collect_metrics failed, the listing
\* succeeded and a container alert was dispatched
C2_Witness ==
    /\ TickComplete
    /\ collected = "err"
    /\ listed = "ok"
    /\ dispatched >= 1

\* C3: channel blocking isolation.  When the send on one channel does not
\* return, the other channels are not blocked by it: each of them has been
\* sent the alert or main can still take the step that sends it.
C3_BlockingIsolation ==
    pc = "hung" =>
       \A c \in Channels \ {idx} : invoked[c] >= 1 \/ ENABLED Next

\* C4: no catch-up bursts.  Once a tick has fired, no earlier tick boundary is
\* still owed: the interval's next deadline lies after the instant the tick
\* fired, so the loop cannot run further ticks at once to make up for missed
\* boundaries.
C4_NoCatchUpBurst == tickAt >= 0 => deadline > tickAt

\* used / total * 100 > thr over the reals; a zero total counts as 0 percent
ExactExceeds(used, total, thr) ==
    /\ total # 0
    /\ LET a == total \div 100
           b == total % 100
           d == used - thr * a
       IN  IF d > 99 THEN TRUE ELSE IF d < 0 THEN FALSE ELSE 100 * d > thr * b

\* the resource rule has been evaluated on metrics, with result alert
ResourceEvaluated == metrics # None /\ pc \in {"res_send", "list", "hung"}

CpuExceeds == F32Gt(metrics[1].cpu_usage, FromU64(CpuThreshold))

MemoryExceeds ==
    ExactExceeds(metrics[1].memory_used, metrics[1].memory_total, MemoryThreshold)

DiskExceeds ==
    ExactExceeds(metrics[1].disk_used, metrics[1].disk_total, DiskThreshold)

ThresholdDetails(thr) == <<"Threshold: ", <<thr, ".", 0>>, "%">>

\* C5: resource rule priority.  Whenever one or more of CPU%, memory% and
\* disk% exceed their thresholds, the rule returns one Warning alert whose
\* source is the first exceeded resource in the order CPU, Memory, Disk, and
\* whose details record that resource's threshold.
C5_ResourcePriority ==
    ResourceEvaluated /\ (CpuExceeds \/ MemoryExceeds \/ DiskExceeds) =>
       /\ alert # None
       /\ alert[1].severity = "Warning"
       /\ alert[1].source =
             (IF CpuExceeds THEN "CPU" ELSE IF MemoryExceeds THEN "Memory" ELSE "Disk")
       /\ alert[1].details =
             ThresholdDetails(IF CpuExceeds THEN CpuThreshold
                              ELSE IF MemoryExceeds THEN MemoryThreshold
                              ELSE DiskThreshold)

\* C6: with non-zero totals, when none of CPU%, memory_used/memory_total*100
\* and disk_used/disk_total*100 exceeds its threshold (equality included), the
\* rule returns no alert.
C6_NoAlertBelowThreshold ==
    /\ ResourceEvaluated
    /\ metrics[1].memory_total # 0
    /\ metrics[1].disk_total # 0
    /\ ~CpuExceeds /\ ~MemoryExceeds /\ ~DiskExceeds
    => alert = None

\* C7: division-by-zero guard.  A zero memory_total never yields a Memory
\* alert and a zero disk_total never yields a Disk alert.
C7_ZeroTotalGuard ==
    ResourceEvaluated /\ alert # None =>
       /\ metrics[1].memory_total = 0 => alert[1].source # "Memory"
       /\ metrics[1].disk_total = 0 => alert[1].source # "Disk"

\* C8: container liveness rule.  The container evaluated last in this tick
\* yields no alert when it is running, and otherwise one Critical alert of
\* source "Container" whose details hold the container's id and its raw
\* status text.
C8_ContainerLiveness ==
    listed = "ok" /\ evaluated >= 1 =>
       LET c == containers[evaluated]
       IN  IF c.running
           THEN alert = None
           ELSE /\ alert # None
                /\ alert[1].severity = "Critical"
                /\ alert[1].source = "Container"
                /\ alert[1].details[2] = c.container_id
                /\ alert[1].details[4] = c.status

\* C8 witness: a container whose status is "Exited (1)" was evaluated and
\* its alert is at hand
C8_Witness ==
    /\ listed = "ok"
    /\ evaluated >= 1
    /\ ~containers[evaluated].running
    /\ containers[evaluated].status = StatusExited
    /\ alert # None

\* C9: every failure swallowed in a tick leaves a log record in that tick.
C9_FailuresLogged == failed \subseteq logged

\* C10: eager channel validation.  With a malformed from or to address the
\* process exits before the loop starts: no tick and no send happens.
C10_EagerValidation ==
    ~ParseMailbox(email.from_address) \/ ~ParseMailbox(email.to_address) =>
       pc \in {"start", "exited"}

\* C11: fatal inventory-source construction.  When DockerContainerMonitor::new
\* fails, the process has exited before the loop: no tick has fired, neither
\* collect_metrics nor list_containers has been called, no rule has returned
\* an alert and no send has been made on any channel.
C11_FatalSourceConstruction ==
    docker = "err" =>
       /\ pc = "exited"
       /\ tickAt = -1
       /\ calls = NoSampling
       /\ alerts = NoAlerts
       /\ sent = NoSends
       /\ invoked = NoCalls /\ network = NoCalls

\* C11 witness: construction of the inventory source failed and main returned
C11_Witness == docker = "err" /\ pc = "exited"

\* C12: no terminal state.  Once the loop is entered the process never exits,
\* whatever fails; and provided every I/O call returns (main is not left
\* suspended in a send), each tick is eventually followed by another: the
\* body of every tick runs to its end, back to interval.tick(), and from
\* there the next tick fires, as long as its deadline lies within the
\* modelled time.
C12_NoTerminalState ==
    /\ [](docker = "ok" => pc # "exited")
    /\ (pc = "collect") ~> (pc = "hung" \/ pc = "wait")
    /\ (pc = "wait" /\ deadline <= MaxTime) ~> (pc = "collect")

\* C12 witness: a further tick has fired after a tick in which a send failed
C12_Witness ==
    /\ pc = "collect"
    /\ tickAt >= Period
    /\ lastTickFailed

\* an alert without its timestamp
StripTimestamp(a) ==
    [severity |-> a.severity, source |-> a.source,
     message |-> a.message, details |-> a.details]

\* two rule results agree: both no alert, or alerts that differ at most in
\* the timestamp
SameOutcome(x, y) ==
    IF x = None \/ y = None THEN x = y
    ELSE StripTimestamp(x[1]) = StripTimestamp(y[1])

\* C13: determinism of the rules.  The result of an evaluation is the result
\* the rule gives for the same snapshot at any other reading of the clock
\* (here clock 0), except for the timestamp: in whatever tick and after
\* whatever earlier evaluations it runs, the rule returns no alert in both or
\* alerts equal in severity, source, message and details; the timestamp is
\* the clock read during the evaluation.
C13_RuleDeterminism ==
    /\ ResourceEvaluated =>
          SameOutcome(alert, ResourceEvaluate(resource_threshold, metrics[1], 0).val)
    /\ listed = "ok" /\ evaluated >= 1 =>
          SameOutcome(alert, ContainerEvaluate(containers[evaluated], 0).val)
    /\ alert # None => tickAt <= alert[1].timestamp /\ alert[1].timestamp <= now

\* C13 witness: the resource rule returned an alert in a later tick, at a
\* clock other than 0
C13_Witness ==
    /\ ResourceEvaluated
    /\ alert # None
    /\ alert[1].timestamp >= Period

\* C14: per-container dispatch.  After a successful listing the container
\* rule is evaluated once for each listed container, in order: the loop has
\* evaluated exactly the containers before its position, and one alert was
\* returned for each of them that is not running.  When the tick has ended,
\* every listed container was evaluated and every channel was sent one alert
\* for each container that is not running, whatever the sends returned.
C14_PerContainerDispatch ==
    listed = "ok" =>
       /\ pc = "cont_eval" => evaluated = pos - 1
       /\ pc = "cont_send" => evaluated = pos /\ ~containers[pos].running
       /\ alerts.container = NotRunning(SubSeq(containers, 1, evaluated))
       /\ \A c \in Channels : sent.container[c] <= alerts.container
       /\ TickComplete =>
             /\ evaluated = Len(containers)
             /\ \A c \in Channels : sent.container[c] = NotRunning(containers)

\* C14 witness: a tick ended in which two containers were listed, neither
\* running, a send of a container alert failed, and both channels were
\* sent both alerts
C14_Witness ==
    /\ TickComplete
    /\ listed = "ok"
    /\ Len(containers) = 2
    /\ NotRunning(containers) = 2
    /\ alerts.resource = 0
    /\ "delivery" \in failed
    /\ sent.container = [c \in Channels |-> 2]

\* C15: once-per-tick sampling.  In a tick collect_metrics is called at most
\* once and list_containers at most once, collect_metrics first; a failed
\* call is not repeated and only its own branch is skipped (no resource alert
\* after a failed collect_metrics, no container evaluation after a failed
\* list_containers); and every tick that has ended, whatever failed before
\* it, has called each source exactly once.
C15_OncePerTickSampling ==
    /\ calls.metrics <= 1 /\ calls.inventory <= 1
    /\ calls.inventory = 1 => calls.metrics = 1
    /\ calls.metrics = 1 <=> collected # "none"
    /\ calls.inventory = 1 <=> listed # "none"
    /\ collected = "err" => alerts.resource = 0 /\ sent.resource = NoCalls
    /\ listed = "err" => evaluated = 0 /\ alerts.container = 0
    /\ TickComplete => calls.metrics = 1 /\ calls.inventory = 1

\* C15 witness: a tick after the first, following a tick with a failed send,
\* has ended with both sources called once and both calls failed
C15_Witness ==
    /\ TickComplete
    /\ tickAt >= Period
    /\ lastTickFailed
    /\ collected = "err" /\ listed = "err"
    /\ calls = [metrics |-> 1, inventory |-> 1]

\* C16: channel invocation order.  The sends of one alert, resource alert or
\* container alert, are made in registration order: the email channel first,
\* then the webhook channel.  At any moment the channels sent the current
\* alert are an initial part of that order, and when the notifier loop has
\* ended they are the whole of it.
C16_InvocationOrder ==
    /\ Len(order) <= 2
    /\ order = SubSeq(<<"email", "slack">>, 1, Len(order))
    /\ DispatchComplete => order = <<"email", "slack">>

\* C16 witness: in one tick a resource alert and a container alert were
\* dispatched, and the notifier loop of the container alert has ended with
\* the email channel called before the webhook channel
C16_Witness ==
    /\ DispatchComplete
    /\ alerts.resource = 1
    /\ alerts.container >= 1
    /\ sent.resource = [c \in Channels |-> 1]
    /\ order = <<"email", "slack">>

\* the snapshot exceeds a threshold as the rule computes it
RuleExceeds(used, total, thr) == F32Gt(UsagePercent(used, total), FromU64(thr))

\* C17: at most one resource alert per tick.  In one tick the resource rule
\* returns at most one alert, however many thresholds the snapshot exceeds,
\* and every channel is sent at most one resource alert.
C17_OneResourceAlertPerTick ==
    /\ alerts.resource <= 1
    /\ \A c \in Channels : sent.resource[c] <= alerts.resource

\* C17 witness: the snapshot exceeds all three thresholds, and the resource
\* stage has ended with one alert, sent once to each channel
C17_Witness ==
    /\ pc = "list"
    /\ metrics # None
    /\ CpuExceeds
    /\ RuleExceeds(metrics[1].memory_used, metrics[1].memory_total, MemoryThreshold)
    /\ RuleExceeds(metrics[1].disk_used, metrics[1].disk_total, DiskThreshold)
    /\ alerts.resource = 1
    /\ sent.resource = [c \in Channels |-> 1]

\* C18: evaluation failure isolation.  When a rule's evaluate returns an
\* EvaluationError in a tick, the error does not leave main; it counts as no
\* alert (no channel is sent more alerts than the rules returned, and no
\* more container alerts exist than containers found not running); the rest
\* of the tick proceeds (the listing is still called, every listed container
\* is still evaluated and each returned alert sent to every channel); and the
\* next tick can fire.
C18_EvaluationIsolation ==
    "evaluation" \in failed =>
       /\ pc # "exited"
       /\ \A c \in Channels : /\ sent.resource[c] <= alerts.resource
                               /\ sent.container[c] <= alerts.container
       /\ alerts.container <= NotRunning(SubSeq(containers, 1, evaluated))
       /\ TickComplete =>
             /\ calls.inventory = 1
             /\ listed = "ok" =>
                   /\ evaluated = Len(containers)
                   /\ \A c \in Channels : sent.container[c] = alerts.container
             /\ deadline <= MaxTime => ENABLED Tick

\* C18 witness: a tick ended in which two containers were listed, neither
\* running, the evaluation of one of them failed, and the other's alert was
\* still sent to both channels
C18_Witness ==
    /\ TickComplete
    /\ "evaluation" \in failed
    /\ listed = "ok"
    /\ Len(containers) = 2
    /\ ~containers[1].running /\ ~containers[2].running
    /\ alerts.resource = 0
    /\ alerts.container = 1
    /\ alert # None /\ alert[1].details[4] = containers[2].status
    /\ sent.container = [c \in Channels |-> 1]

\* no condition of the resource rule fires on the snapshot
NoConditionFires ==
    /\ ~CpuExceeds
    /\ ~RuleExceeds(metrics[1].memory_used, metrics[1].memory_total, MemoryThreshold)
    /\ ~RuleExceeds(metrics[1].disk_used, metrics[1].disk_total, DiskThreshold)

\* C19: "condition not met" is never an error.  Neither rule ever returns an
\* EvaluationError: when no condition of the resource rule fires on the
\* snapshot, and when the evaluated container is running, the result is the
\* successful empty result, with no evaluation failure in the tick.
C19_NotMetIsNotAnError ==
    /\ "evaluation" \notin failed
    /\ ResourceEvaluated /\ NoConditionFires =>
          alert = None /\ ResourceEvaluate(resource_threshold, metrics[1], now) = Ok(None)
    /\ listed = "ok" /\ evaluated >= 1 /\ containers[evaluated].running =>
          alert = None /\ ContainerEvaluate(containers[evaluated], now) = Ok(None)

\* C19 witness: the resource rule was evaluated on a snapshot on which no
\* condition fires, and main has gone on to the listing without a failure
C19_Witness ==
    /\ pc = "list"
    /\ metrics # None
    /\ NoConditionFires
    /\ alert = None
    /\ failed = {}

\* sends made to channel c in this tick
SentInTick(c) == sent.resource[c] + sent.container[c]

\* alerts the rules returned in this tick
AlertsInTick == alerts.resource + alerts.container

\* C20: no cross-tick suppression or backlog.  Whatever happened in earlier
\* ticks, a tick whose snapshot meets a condition of the resource rule gets
\* its resource alert and every container found not running gets its alert;
\* the alert at hand was built in this tick; a tick starts with no alert and
\* no send carried over; no channel is sent more than the alerts of this tick
\* (a send that failed earlier is not made again), and when the tick has
\* ended every channel was sent each of them.
C20_NoSuppressionNoBacklog ==
    /\ ResourceEvaluated /\ ~NoConditionFires =>
          alerts.resource = 1 /\ alert # None
    /\ listed = "ok" =>
          alerts.container = NotRunning(SubSeq(containers, 1, evaluated))
    /\ alert # None => alert[1].timestamp >= tickAt
    /\ pc = "collect" => alert = None /\ alerts = NoAlerts /\ sent = NoSends
    /\ \A c \in Channels : SentInTick(c) <= AlertsInTick
    /\ TickComplete => \A c \in Channels : SentInTick(c) = AlertsInTick

\* C20 witness: in the tick before this one a send of an alert failed; this
\* tick built a resource alert of its own and has ended with that alert sent
\* once to each channel and nothing else sent
C20_Witness ==
    /\ TickComplete
    /\ tickAt >= Period
    /\ lastTickFailed
    /\ alerts = [resource |-> 1, container |-> 0]
    /\ sent = [resource |-> [c \in Channels |-> 1], container |-> NoCalls]

====
